---- MODULE Spec2Model ----
(***************************************************************************)
(* Model of the MCP server of MCPHelloWorldDocker: SimpleMCPServer         *)
(* (registry, run loop, dispatch, response envelopes), the two shipped    *)
(* tools HelloTool and GetSourceCodeTool, and base64_encode.               *)
(*                                                                         *)
(* JSON values are tagged records.  A text (an input line, an output       *)
(* line, the argument text handed to a tool) is either the serialisation   *)
(* of a JSON document or some text that is not JSON.  Exceptions of the    *)
(* JSON library are outcomes [ok |-> FALSE, exc |-> ...]; an exception     *)
(* that no handler catches ends the process (std::terminate).              *)
(***************************************************************************)
EXTENDS Integers, Sequences, FiniteSets, TLC

\* Number of input lines the client sends before it closes the stream.
MaxLines == 2

-----------------------------------------------------------------------------
\* JSON values (nlohmann::json)

JNull == [t |-> "null"]
JNum(n) == [t |-> "number", n |-> n]
JStr(s) == [t |-> "string", s |-> s]
JArr(a) == [t |-> "array", a |-> a]
JObj(o) == [t |-> "object", o |-> o]

\* json::object(): the object with no member
EmptyObject == JObj(<<>>)

\* Outcome of an operation that may throw
Ok(v) == [ok |-> TRUE, v |-> v]
Throw(e) == [ok |-> FALSE, exc |-> e]

\* basic_json::dump(): the text of a document
Dump(j) == [raw |-> "json", doc |-> j]

\* Texts that are not the serialisation of a JSON document
EmptyText == [raw |-> "empty"]
BlankText == [raw |-> "blank"]
GarbageText == [raw |-> "garbage"]

\* json::parse(text): the document, or parse_error
Parse(text) ==
  IF text.raw = "json" THEN Ok(text.doc) ELSE Throw("parse_error")

\* parse_error::what() for a text that does not parse
What(text) ==
  IF text.raw = "blank"
    THEN "[json.exception.parse_error.101] unexpected end of input"
    ELSE "[json.exception.parse_error.101] syntax error"

\* basic_json::value(key, default) with a json default: any member value
ValueJson(j, key, default) ==
  IF j.t # "object" THEN Throw("type_error")
  ELSE IF key \in DOMAIN j.o THEN Ok(j.o[key])
  ELSE Ok(default)

\* basic_json::value(key, default) with a string default: the member must be
\* a string
ValueString(j, key, default) ==
  IF j.t # "object" THEN Throw("type_error")
  ELSE IF key \in DOMAIN j.o
    THEN IF j.o[key].t = "string" THEN Ok(j.o[key].s) ELSE Throw("type_error")
  ELSE Ok(default)

\* Implicit conversion of a json value to std::string (get<std::string>)
ToStdString(j) ==
  IF j.t = "string" THEN Ok(j.s) ELSE Throw("type_error")

\* json::parse of a std::string held by the program.  The strings a tool of
\* the model returns are plain words; "42" is the one that is a JSON document.
ParseString(s) ==
  IF s = "42" THEN Ok(JNum(42)) ELSE Throw("parse_error")

-----------------------------------------------------------------------------
\* Tools (mcpTool.hh McpTool, hello.cpp HelloTool / GetSourceCodeTool)

\* {"type":"text","text":s}
TextItem(s) == JObj([type |-> JStr("text"), text |-> JStr(s)])

\* Tool instances.  h1 is a HelloTool, g1 a GetSourceCodeTool.  e1 and p1
\* are two other implementations of McpTool registered under the same name:
\* e1 returns a JSON string from call and describes itself in JSON, p1
\* returns the text of a number and describes itself in plain words.
Tools ==
  { [inst |-> "h1", kind |-> "HelloTool"],
    [inst |-> "g1", kind |-> "GetSourceCodeTool"],
    [inst |-> "e1", kind |-> "TextTool"],
    [inst |-> "p1", kind |-> "PlainTool"] }

\* McpTool::name()
ToolName(tool) ==
  CASE tool.kind = "HelloTool" -> "HelloTool"
    [] tool.kind = "GetSourceCodeTool" -> "GetSourceCode"
    [] OTHER -> "Echo"

\* States of the file src/hello.cpp as the process finds it
FileStates == {"missing", "empty", "readable"}

\* encodeFile("src/hello.cpp"): nullopt, or {mimeType, text} for a .cpp file
EncodeFile(file) ==
  IF file = "missing" \/ file = "empty" THEN [some |-> FALSE]
  ELSE [some |-> TRUE,
        v |-> JObj([mimeType |-> JStr("text/x-c++src"),
                    text |-> JStr("<content of hello.cpp>")])]

\* HelloTool::call(args)
HelloToolCall(args) ==
  LET p == Parse(args) IN
  IF ~p.ok THEN Ok(JArr(<<TextItem("Error: Invalid arguments")>>))
  ELSE
    LET userName == ValueString(p.v, "value", "World")
        userBirthday == ValueString(p.v, "birthday", "") IN
    IF ~userName.ok THEN Throw(userName.exc)
    ELSE IF ~userBirthday.ok THEN Throw(userBirthday.exc)
    ELSE
      LET who == IF userBirthday.v # ""
                   THEN userName.v \o " (born on " \o userBirthday.v \o ")"
                   ELSE userName.v
      IN Ok(JArr(<<TextItem("Hello " \o who \o "!")>>))

\* GetSourceCodeTool::call(args)
GetSourceCodeToolCall(args, file) ==
  LET fileData == EncodeFile(file) IN
  IF ~fileData.some
    THEN Ok(JArr(<<TextItem("Error: Could not read hello.cpp file")>>))
    ELSE
      LET resource ==
            JObj(("uri" :> JStr("file://src/hello.cpp")) @@ fileData.v.o)
      IN Ok(JArr(<<JObj([type |-> JStr("resource"), resource |-> resource])>>))

\* A tool whose call returns a JSON string
TextToolCall(args) == Ok(JStr("pong"))

\* A tool whose call returns a JSON string that holds the text of a number
PlainToolCall(args) == Ok(JStr("42"))

\* McpTool::call(arguments), dispatched on the dynamic type
ToolCall(tool, args, file) ==
  CASE tool.kind = "HelloTool" -> HelloToolCall(args)
    [] tool.kind = "GetSourceCodeTool" -> GetSourceCodeToolCall(args, file)
    [] tool.kind = "PlainTool" -> PlainToolCall(args)
    [] OTHER -> TextToolCall(args)

-----------------------------------------------------------------------------
\* Response envelopes (SimpleMCPServer::sendResponse / sendError)

ResponseDoc(id, result) ==
  JObj([jsonrpc |-> JStr("2.0"), id |-> id, result |-> result])

ErrorDoc(id, code, message) ==
  JObj([jsonrpc |-> JStr("2.0"), id |-> id,
        error |-> JObj([code |-> JNum(code), message |-> JStr(message)])])

\* What one pass of the loop body did: the documents written to std::cout
\* in order, the exception that left the loop body (or "none"), the
\* registry afterwards and the tool instances invoked, with the argument text
\* each was given and what its call returned or threw.
Effect(written, exc, reg, invoked) ==
  [out |-> written, exc |-> exc, reg |-> reg, calls |-> invoked]

sendResponse(id, result, reg) ==
  Effect(<<ResponseDoc(id, result)>>, "none", reg, <<>>)

\* Variant: the error envelope also carries a null result
sendError_WithResult(id, code, message, reg) ==
  Effect(<<JObj([jsonrpc |-> JStr("2.0"), id |-> id, result |-> JNull,
                 error |-> JObj([code |-> JNum(code),
                                 message |-> JStr(message)])])>>,
         "none", reg, <<>>)

sendError(id, code, message, reg) ==
  Effect(<<ErrorDoc(id, code, message)>>, "none", reg, <<>>)

-----------------------------------------------------------------------------
\* Tool descriptions (McpTool::describe)

StringProperty(description) ==
  JObj([type |-> JStr("string"), description |-> JStr(description)])

\* HelloTool::describe(), GetSourceCodeTool::describe(): the text of the
\* description document.  The description of p1 is not a JSON document.
Describe(tool) ==
  CASE tool.kind = "HelloTool" ->
         Dump(JObj([name |-> JStr(ToolName(tool)),
                    description |-> JStr("A tool that greets users"),
                    inputSchema |->
                      JObj([type |-> JStr("object"),
                            properties |->
                              JObj([value |-> StringProperty("User name to greet"),
                                    birthday |-> StringProperty("User's birthday")])]),
                    required |-> JArr(<<JStr("value")>>)]))
    [] tool.kind = "GetSourceCodeTool" ->
         Dump(JObj([name |-> JStr(ToolName(tool)),
                    description |-> JStr("Gets the source code of hello.cpp file"),
                    inputSchema |->
                      JObj([type |-> JStr("object"),
                            properties |-> EmptyObject,
                            required |-> JArr(<<>>)])]))
    [] tool.kind = "PlainTool" -> GarbageText
    [] OTHER ->
         Dump(JObj([name |-> JStr(ToolName(tool)),
                    description |-> JStr("A tool that answers with a word"),
                    inputSchema |->
                      JObj([type |-> JStr("object"),
                            properties |-> EmptyObject])]))

-----------------------------------------------------------------------------
\* Request handlers

\* The tool names of the model in the ascending order of std::map's keys
NameOrder == <<"Echo", "GetSourceCode", "HelloTool">>

\* Variant: the registry is a std::unordered_map, iterated in the order of
\* its buckets
RegistryKeys_Hashed(reg) ==
  SelectSeq(<<"HelloTool", "Echo", "GetSourceCode">>, LAMBDA n : n \in DOMAIN reg)

\* Iteration order of fRegisteredTools: its keys, ascending
RegistryKeys(reg) == SelectSeq(NameOrder, LAMBDA n : n \in DOMAIN reg)

\* SimpleMCPServer::handleToolsListRequest
handleToolsListRequest(id, reg) ==
  LET keys == RegistryKeys(reg)
      parsed == [i \in 1..Len(keys) |-> Parse(Describe(reg[keys[i]]))]
  IN IF \E i \in 1..Len(keys) : ~parsed[i].ok
       THEN Effect(<<>>, "parse_error", reg, <<>>)
       ELSE sendResponse(id,
                         JObj([tools |-> JArr([i \in 1..Len(keys) |-> parsed[i].v])]),
                         reg)

\* Variant: the return after sendError is missing and a result follows
toolNotFound_NoReturn(id, toolName, reg) ==
  Effect(<<ErrorDoc(id, -32602, "Method not found: " \o toolName),
           ResponseDoc(id, JObj([content |-> JArr(<<>>)]))>>,
         "none", reg, <<>>)

\* Variant: the lookup is made with operator[], which binds the name
toolNotFound_Binds(id, toolName, reg) ==
  Effect(<<ErrorDoc(id, -32602, "Method not found: " \o toolName)>>, "none",
         (toolName :> [inst |-> "nullptr", kind |-> "none"]) @@ reg, <<>>)

\* handleToolCall when find(toolName) == end(): one error, then return
toolNotFound(id, toolName, reg) ==
  sendError(id, -32602, "Method not found: " \o toolName, reg)

\* handleToolCall when the name is bound: the tool is called, its answer is
\* converted to std::string, parsed if it parses, and wrapped in a text item
toolFound(id, toolName, arguments, reg, file) ==
  LET tool == reg[toolName]
      returned == ToolCall(tool, Dump(arguments), file)
      invoked == <<[inst |-> tool.inst, args |-> Dump(arguments),
                    ret |-> returned]>>
  IN
  IF ~returned.ok THEN Effect(<<>>, returned.exc, reg, invoked)
  ELSE
    LET toolResponse == ToStdString(returned.v) IN
    IF ~toolResponse.ok THEN Effect(<<>>, toolResponse.exc, reg, invoked)
    ELSE
      LET p == ParseString(toolResponse.v)
          responseJson == IF p.ok THEN p.v ELSE JStr(toolResponse.v)
          result == JObj([content |->
                      JArr(<<JObj([type |-> JStr("text"),
                                   text |-> responseJson])>>)])
      IN Effect(<<ResponseDoc(id, result)>>, "none", reg, invoked)

\* Variant: the unique_ptr is moved out of the map for the call, so the
\* binding is gone afterwards
handleToolCall_Consumes(id, toolName, arguments, reg, file) ==
  IF toolName \notin DOMAIN reg
    THEN toolNotFound(id, toolName, reg)
    ELSE LET e == toolFound(id, toolName, arguments, reg, file) IN
         Effect(e.out, e.exc,
                [n \in DOMAIN reg \ {toolName} |-> reg[n]], e.calls)

\* Variant: the tool is looked up with operator[] and tested for null, which
\* binds a name that was not bound
handleToolCall_IndexFirst(id, toolName, arguments, reg, file) ==
  IF toolName \notin DOMAIN reg
    THEN toolNotFound_Binds(id, toolName, reg)
    ELSE toolFound(id, toolName, arguments, reg, file)

\* SimpleMCPServer::handleToolCall
handleToolCall(id, toolName, arguments, reg, file) ==
  IF toolName \notin DOMAIN reg
    THEN toolNotFound(id, toolName, reg)
    ELSE toolFound(id, toolName, arguments, reg, file)

\* Variant: the version reported is the constructor's, not the configured one
handleInitialize_FixedVersion(id, reg, name, version) ==
  sendResponse(id,
               JObj([protocolVersion |-> JStr("2024-11-05"),
                     capabilities |-> JObj([tools |-> EmptyObject]),
                     serverInfo |-> JObj([name |-> JStr(name),
                                          version |-> JStr("1.0.0")])]),
               reg)

\* SimpleMCPServer::handleInitialize
handleInitialize(id, reg, name, version) ==
  sendResponse(id,
               JObj([protocolVersion |-> JStr("2024-11-05"),
                     capabilities |-> JObj([tools |-> EmptyObject]),
                     serverInfo |-> JObj([name |-> JStr(name),
                                          version |-> JStr(version)])]),
               reg)

\* Variant: the unknown method is reported with the code of invalid params
unknownMethod_InvalidParams(id, method, reg) ==
  sendError(id, -32602, "Method not found: " \o method, reg)

\* The final else of the dispatch in run(): the method is not recognised
unknownMethod(id, method, reg) ==
  sendError(id, -32601, "Method not found: " \o method, reg)

\* Variant: the notification is acknowledged with an empty result
nothingToDo_Answers(id, reg) == sendResponse(id, EmptyObject, reg)

\* The branches of run() for notifications/cancelled and
\* notifications/initialized: nothing to do
nothingToDo(id, reg) == Effect(<<>>, "none", reg, <<>>)

\* Variant: the default of params.arguments is json(), that is null, and
\* not the empty object
Dispatch_NullArguments(request, reg, name, version, file) ==
  LET id == ValueJson(request, "id", JNull)
      method == ValueString(request, "method", "")
  IN
  IF ~id.ok THEN Effect(<<>>, id.exc, reg, <<>>)
  ELSE IF ~method.ok THEN Effect(<<>>, method.exc, reg, <<>>)
  ELSE IF method.v = "initialize" THEN handleInitialize(id.v, reg, name, version)
  ELSE IF method.v = "notifications/cancelled" THEN nothingToDo(id.v, reg)
  ELSE IF method.v = "notifications/initialized" THEN nothingToDo(id.v, reg)
  ELSE IF method.v = "tools/list" THEN handleToolsListRequest(id.v, reg)
  ELSE IF method.v = "tools/call" THEN
    LET params == ValueJson(request, "params", EmptyObject) IN
    LET toolName == ValueString(params.v, "name", "")
        arguments == ValueJson(params.v, "arguments", JNull)
    IN
    IF ~toolName.ok THEN Effect(<<>>, toolName.exc, reg, <<>>)
    ELSE IF ~arguments.ok THEN Effect(<<>>, arguments.exc, reg, <<>>)
    ELSE handleToolCall(id.v, toolName.v, arguments.v, reg, file)
  ELSE unknownMethod(id.v, method.v, reg)

\* The try block of SimpleMCPServer::run for a line that parsed as request
Dispatch(request, reg, name, version, file) ==
  LET id == ValueJson(request, "id", JNull)
      method == ValueString(request, "method", "")
  IN
  IF ~id.ok THEN Effect(<<>>, id.exc, reg, <<>>)
  ELSE IF ~method.ok THEN Effect(<<>>, method.exc, reg, <<>>)
  ELSE IF method.v = "initialize" THEN handleInitialize(id.v, reg, name, version)
  ELSE IF method.v = "notifications/cancelled" THEN nothingToDo(id.v, reg)
  ELSE IF method.v = "notifications/initialized" THEN nothingToDo(id.v, reg)
  ELSE IF method.v = "tools/list" THEN handleToolsListRequest(id.v, reg)
  ELSE IF method.v = "tools/call" THEN
    LET params == ValueJson(request, "params", EmptyObject) IN
    LET toolName == ValueString(params.v, "name", "")
        arguments == ValueJson(params.v, "arguments", EmptyObject)
    IN
    IF ~toolName.ok THEN Effect(<<>>, toolName.exc, reg, <<>>)
    ELSE IF ~arguments.ok THEN Effect(<<>>, arguments.exc, reg, <<>>)
    ELSE handleToolCall(id.v, toolName.v, arguments.v, reg, file)
  ELSE unknownMethod(id.v, method.v, reg)

\* Variant: run() has no catch clause and the parse_error leaves it
parseFailed_Uncaught(line, reg) == Effect(<<>>, "parse_error", reg, <<>>)

\* The catch (const json::parse_error &) clause of run()
parseFailed(line, reg) ==
  sendError(JNull, -32700, "Parse error: " \o What(line), reg)

\* Variant: the test of line.empty() is missing and the empty line is parsed
LoopBody_NoSkip(line, reg, name, version, file) ==
  LET request == Parse(line) IN
  IF ~request.ok
    THEN parseFailed(line, reg)
    ELSE
      LET e == Dispatch(request.v, reg, name, version, file) IN
      IF e.exc = "parse_error"
        THEN LET c == parseFailed(GarbageText, e.reg) IN
             Effect(e.out \o c.out, c.exc, c.reg, e.calls)
        ELSE e

\* One pass of the while loop of SimpleMCPServer::run on one line: the empty
\* line is skipped, a parse_error is caught and answered, any other
\* exception leaves run() and main() uncaught.
LoopBody(line, reg, name, version, file) ==
  IF line.raw = "empty" THEN Effect(<<>>, "none", reg, <<>>)
  ELSE
    LET request == Parse(line) IN
    IF ~request.ok
      THEN parseFailed(line, reg)
      ELSE
        LET e == Dispatch(request.v, reg, name, version, file) IN
        IF e.exc = "parse_error"
          THEN LET c == parseFailed(GarbageText, e.reg) IN
               Effect(e.out \o c.out, c.exc, c.reg, e.calls)
          ELSE e

-----------------------------------------------------------------------------
\* The input the client may send

\* Marker of a member that the request does not have
Absent == [t |-> "absent"]

Member(key, v) == IF v = Absent THEN <<>> ELSE key :> v

\* The request object with the members that are not Absent
Request(id, method, params) ==
  JObj(Member("jsonrpc", JStr("2.0")) @@ Member("id", id)
       @@ Member("method", method) @@ Member("params", params))

\* params of tools/call: {name, arguments}
CallParams(name, arguments) ==
  JObj(Member("name", name) @@ Member("arguments", arguments))

KnownMethods ==
  {"initialize", "notifications/initialized", "notifications/cancelled",
   "tools/list", "tools/call"}

\* method members: absent, the methods without params of their own, an
\* unknown method, a method that is not a string
PlainMethods ==
  {Absent, JStr("initialize"), JStr("notifications/initialized"),
   JStr("notifications/cancelled"), JStr("tools/list"), JStr("resources/list"),
   JNum(5)}

\* params members of the tools/call requests
ToolCallParams ==
  {Absent, JArr(<<>>), CallParams(Absent, Absent), CallParams(JNum(5), Absent),
   CallParams(JStr("Nope"), EmptyObject),
   CallParams(JStr("HelloTool"), JObj([value |-> JStr("Ada")])),
   CallParams(JStr("HelloTool"),
              JObj([value |-> JStr("Ada"), birthday |-> JStr("1815")])),
   CallParams(JStr("HelloTool"), JObj([value |-> JNum(5)])),
   CallParams(JStr("HelloTool"), JArr(<<>>)),
   CallParams(JStr("HelloTool"), Absent),
   CallParams(JStr("GetSourceCode"), EmptyObject),
   CallParams(JStr("Echo"), JObj([value |-> JStr("Ada")]))}

Requests ==
  {Request(id, m, Absent) : id \in {Absent, JNum(4)}, m \in PlainMethods}
  \cup {Request(JStr("a"), JStr("initialize"),
                JObj([protocolVersion |-> JStr("2025-06-18")])),
        Request(JNull, JStr("resources/list"), Absent)}
  \cup {Request(JNum(4), JStr("tools/call"), p) : p \in ToolCallParams}
  \cup {Request(Absent, JStr("tools/call"), CallParams(JStr(n), EmptyObject)) :
          n \in {"Nope", "Echo"}}

\* The lines of the input: the empty line, a line of spaces, a line that is
\* not JSON, JSON documents that are not objects, and the requests
Lines ==
  {EmptyText, BlankText, GarbageText, Dump(JArr(<<JNum(1)>>))}
  \cup {Dump(r) : r \in Requests}

ServerNames == {"GreetingServer", "OtherServer"}
ServerVersions == {"1.0.0", "2.0.0"}

-----------------------------------------------------------------------------
\* State

VARIABLES
  status,           \* "setup": main before run(); "running": inside run();
                    \* "returned": run() returned; "terminated": std::terminate
  fRegisteredTools, \* name -> tool instance
  fServerName,
  fServerVersion,
  configured,       \* the name and version most recently asked for
  lines,            \* the input lines read so far by std::getline
  out,              \* std::cout: [src, text], src the index in lines of the
                    \* line whose handling wrote the text
  calls,            \* tool invocations: [src, inst, args, ret]
  registered,       \* the tools given to registerTool, in order, when the
                    \* specification keeps that record
  pc,               \* where run() stands when its loop is followed statement
                    \* by statement: "getline", "try" (a line is in hand),
                    \* "handler" (inside the handler of that line)
  pending,          \* the handlers entered and not yet left: [src, e, stage]
  data,             \* the byte vector given to base64_encode
  encoded           \* what base64_encode returned for data, once called

\* The variables of the statement-by-statement view of run()
stepVars == <<pc, pending>>

\* The variables of the encoder
encoderVars == <<data, encoded>>

vars == <<status, fRegisteredTools, fServerName, fServerVersion, configured,
          lines, out, calls, registered, pc, pending, data, encoded>>

\* SimpleMCPServer server("GreetingServer")
Init ==
  /\ status = "setup"
  /\ fRegisteredTools = <<>>
  /\ fServerName = "GreetingServer"
  /\ fServerVersion = "1.0.0"
  /\ configured = [name |-> "GreetingServer", version |-> "1.0.0"]
  /\ lines = <<>>
  /\ out = <<>>
  /\ calls = <<>>
  /\ registered = <<>>
  /\ pc = "getline"
  /\ pending = <<>>
  /\ data = <<>>
  /\ encoded = [some |-> FALSE]

\* Variant: the tool is inserted with map::insert, which keeps a binding
\* that exists
Bind_KeepsFirst(reg, tool) ==
  IF ToolName(tool) \in DOMAIN reg THEN reg ELSE (ToolName(tool) :> tool) @@ reg

\* fRegisteredTools[name] = std::move(tool)
Bind(reg, tool) == (ToolName(tool) :> tool) @@ reg

registerTool(tool) ==
  /\ status = "setup"
  /\ fRegisteredTools' = Bind(fRegisteredTools, tool)
  /\ UNCHANGED <<status, fServerName, fServerVersion, configured, lines, out,
                 calls, stepVars, encoderVars>>

setServerName(name) ==
  /\ status = "setup"
  /\ fServerName' = name
  /\ configured' = [configured EXCEPT !.name = name]
  /\ UNCHANGED <<status, fRegisteredTools, fServerVersion, lines, out, calls,
                 registered, stepVars, encoderVars>>

setServerVersion(version) ==
  /\ status = "setup"
  /\ fServerVersion' = version
  /\ configured' = [configured EXCEPT !.version = version]
  /\ UNCHANGED <<status, fRegisteredTools, fServerName, lines, out, calls,
                 registered, stepVars, encoderVars>>

\* main calls server.run()
run ==
  /\ status = "setup"
  /\ status' = "running"
  /\ UNCHANGED <<fRegisteredTools, fServerName, fServerVersion, configured,
                 lines, out, calls, registered, stepVars, encoderVars>>

\* Variant: the response is put in front of what was written before
Write_InFront(stream, docs, n) ==
  [k \in 1..Len(docs) |-> [src |-> n, text |-> Dump(docs[k])]] \o stream

\* Variant: a line of log in plain words is written to std::cout before the
\* responses
Write_WithLog(stream, docs, n) ==
  stream \o <<[src |-> n, text |-> GarbageText]>>
         \o [k \in 1..Len(docs) |-> [src |-> n, text |-> Dump(docs[k])]]

\* std::cout << responseStr << std::endl, for each document in turn; n is
\* the index of the line being handled
Write(stream, docs, n) ==
  stream \o [k \in 1..Len(docs) |-> [src |-> n, text |-> Dump(docs[k])]]

\* Variant: the server keeps a flag set by initialize, and answers
\* tools/list and tools/call with an error until it is set
ReadLine_NeedsInitialize(line, file) ==
  /\ status = "running"
  /\ LET initialized ==
           \E i \in 1..Len(lines) :
             /\ lines[i].raw = "json"
             /\ lines[i].doc.t = "object"
             /\ "method" \in DOMAIN lines[i].doc.o
             /\ lines[i].doc.o.method = JStr("initialize")
         gated ==
           /\ ~initialized
           /\ line.raw = "json"
           /\ line.doc.t = "object"
           /\ "method" \in DOMAIN line.doc.o
           /\ line.doc.o.method \in {JStr("tools/list"), JStr("tools/call")}
         e == IF gated
                THEN sendError(JNull, -32002, "Server not initialized",
                               fRegisteredTools)
                ELSE LoopBody(line, fRegisteredTools, fServerName,
                              fServerVersion, file)
         n == Len(lines) + 1
     IN /\ lines' = Append(lines, line)
        /\ out' = Write(out, e.out, n)
        /\ calls' = calls \o [k \in 1..Len(e.calls) |->
                                [src |-> n, inst |-> e.calls[k].inst,
                                 args |-> e.calls[k].args,
                                 ret |-> e.calls[k].ret]]
        /\ fRegisteredTools' = e.reg
        /\ status' = IF e.exc = "none" THEN "running" ELSE "terminated"
  /\ UNCHANGED <<fServerName, fServerVersion, configured, registered,
                 stepVars, encoderVars>>

\* One pass of the while loop: std::getline yields a line, the body runs on it
ReadLine(line, file) ==
  /\ status = "running"
  /\ LET e == LoopBody(line, fRegisteredTools, fServerName, fServerVersion, file)
         n == Len(lines) + 1
     IN /\ lines' = Append(lines, line)
        /\ out' = Write(out, e.out, n)
        /\ calls' = calls \o [k \in 1..Len(e.calls) |->
                                [src |-> n, inst |-> e.calls[k].inst,
                                 args |-> e.calls[k].args,
                                 ret |-> e.calls[k].ret]]
        /\ fRegisteredTools' = e.reg
        /\ status' = IF e.exc = "none" THEN "running" ELSE "terminated"
  /\ UNCHANGED <<fServerName, fServerVersion, configured, registered,
                 stepVars, encoderVars>>

\* std::getline finds the end of the stream: run() returns, main returns 0
EndOfStream ==
  /\ status = "running"
  /\ status' = "returned"
  /\ UNCHANGED <<fRegisteredTools, fServerName, fServerVersion, configured,
                 lines, out, calls, registered, stepVars, encoderVars>>

\* main as it is written: it registers tools and calls run(), and does not
\* call the setters.  The client sends at most MaxLines lines; the
\* registrations are not recorded
Next ==
  \/ \E tool \in Tools : registerTool(tool) /\ UNCHANGED registered
  \/ run
  \/ \E line \in Lines, file \in FileStates :
       Len(lines) < MaxLines /\ ReadLine(line, file)
  \/ EndOfStream

Spec == Init /\ [][Next]_vars

\* Number of registerTool calls main makes when the registrations are recorded
MaxRegs == 3

\* The lines of the sessions that look at the registry: tools/list, the
\* requests and lines that may come between two of them, and tools/call of a
\* bound and of an unbound name
RegistryLines ==
  { Dump(Request(JNum(4), JStr("tools/list"), Absent)),
    Dump(Request(JNum(4), JStr("initialize"), Absent)),
    Dump(Request(Absent, JStr("notifications/initialized"), Absent)),
    GarbageText,
    Dump(Request(JNum(4), JStr("tools/call"),
                 CallParams(JStr("Echo"), JObj([value |-> JStr("Ada")])))),
    Dump(Request(JNum(4), JStr("tools/call"),
                 CallParams(JStr("HelloTool"), JObj([value |-> JStr("Ada")])))),
    Dump(Request(JNum(4), JStr("tools/call"),
                 CallParams(JStr("Nope"), EmptyObject))) }

\* The registrations main of hello.cpp makes, in order
MainRegistrations ==
  << [inst |-> "h1", kind |-> "HelloTool"],
     [inst |-> "g1", kind |-> "GetSourceCodeTool"] >>

\* main makes at most MaxRegs registrations, which are recorded, and the
\* client sends at most MaxLines + 1 lines out of RegistryLines
NextRegistry ==
  \/ \E tool \in Tools :
       /\ Len(registered) < MaxRegs
       /\ registerTool(tool)
       /\ registered' = Append(registered, tool)
  \/ run
  \/ \E line \in RegistryLines, file \in FileStates :
       Len(lines) < MaxLines + 1 /\ ReadLine(line, file)
  \/ EndOfStream

SpecRegistry == Init /\ [][NextRegistry]_vars

\* The lines of the sessions that look at the server's name and version:
\* initialize with and without id and params, and lines of other kinds
ConfigLines ==
  { Dump(Request(id, JStr("initialize"), Absent)) : id \in {Absent, JNum(4)} }
  \cup { Dump(Request(JStr("a"), JStr("initialize"),
                      JObj([protocolVersion |-> JStr("2025-06-18")]))),
         Dump(Request(JNum(4), JStr("tools/list"), Absent)),
         Dump(Request(JNum(4), JStr("resources/list"), Absent)),
         GarbageText }

\* A main that also calls setServerName and setServerVersion before run()
NextConfig ==
  \/ \E tool \in Tools : registerTool(tool) /\ UNCHANGED registered
  \/ \E name \in ServerNames : setServerName(name)
  \/ \E version \in ServerVersions : setServerVersion(version)
  \/ run
  \/ \E line \in ConfigLines, file \in FileStates :
       Len(lines) < MaxLines /\ ReadLine(line, file)
  \/ EndOfStream

SpecConfig == Init /\ [][NextConfig]_vars

-----------------------------------------------------------------------------
\* run() followed statement by statement: std::getline, the try block up to
\* the call of the tool, the return of the tool, the write of the response
\* and the return to the head of the loop

\* The lines of these sessions
StepLines == RegistryLines \cup {EmptyText}

\* while (std::getline(std::cin, line)) { if (line.empty()) continue;
getline(line) ==
  /\ status = "running"
  /\ pc = "getline"
  /\ lines' = Append(lines, line)
  /\ pc' = IF line.raw = "empty" THEN "getline" ELSE "try"
  /\ UNCHANGED <<status, fRegisteredTools, fServerName, fServerVersion,
                 configured, out, calls, registered, pending, encoderVars>>

\* Variant: the handler is started on a thread of its own and the loop goes
\* back to std::getline without waiting for it
tryBlock_Detached(file) ==
  /\ status = "running"
  /\ pc = "try"
  /\ LET n == Len(lines)
         e == LoopBody(lines[n], fRegisteredTools, fServerName,
                       fServerVersion, file)
     IN pending' = Append(pending,
                          [src |-> n, e |-> e,
                           stage |-> IF e.calls # <<>> THEN "call" ELSE "send"])
  /\ pc' = "getline"
  /\ UNCHANGED <<status, fRegisteredTools, fServerName, fServerVersion,
                 configured, lines, out, calls, registered, encoderVars>>

\* The try block is entered with the line in hand: the request is parsed and
\* dispatched, and the handler runs up to the call of the tool if it makes
\* one, else up to its write.  e is what the handler does from there on.
tryBlock(file) ==
  /\ status = "running"
  /\ pc = "try"
  /\ LET n == Len(lines)
         e == LoopBody(lines[n], fRegisteredTools, fServerName,
                       fServerVersion, file)
     IN pending' = Append(pending,
                          [src |-> n, e |-> e,
                           stage |-> IF e.calls # <<>> THEN "call" ELSE "send"])
  /\ pc' = "handler"
  /\ UNCHANGED <<status, fRegisteredTools, fServerName, fServerVersion,
                 configured, lines, out, calls, registered, encoderVars>>

\* fRegisteredTools[toolName]->call(arguments.dump()) returns or throws
toolReturns(i) ==
  /\ status = "running"
  /\ pending[i].stage = "call"
  /\ calls' = calls \o [k \in 1..Len(pending[i].e.calls) |->
                          [src |-> pending[i].src,
                           inst |-> pending[i].e.calls[k].inst,
                           args |-> pending[i].e.calls[k].args,
                           ret |-> pending[i].e.calls[k].ret]]
  /\ pending' = [pending EXCEPT ![i].stage = "send"]
  /\ UNCHANGED <<status, fRegisteredTools, fServerName, fServerVersion,
                 configured, lines, out, registered, pc, encoderVars>>

\* The handler writes its response, if it has one, and control is back at
\* the head of the loop; an exception that is not caught ends the process
handlerReturns(i) ==
  /\ status = "running"
  /\ pending[i].stage = "send"
  /\ out' = Write(out, pending[i].e.out, pending[i].src)
  /\ fRegisteredTools' = pending[i].e.reg
  /\ status' = IF pending[i].e.exc = "none" THEN "running" ELSE "terminated"
  /\ pending' = SubSeq(pending, 1, i - 1) \o SubSeq(pending, i + 1, Len(pending))
  /\ pc' = "getline"
  /\ UNCHANGED <<fServerName, fServerVersion, configured, lines, calls,
                 registered, encoderVars>>

\* The client sends at most MaxLines lines out of StepLines
NextSteps ==
  \/ \E tool \in Tools : registerTool(tool) /\ UNCHANGED registered
  \/ run
  \/ \E line \in StepLines : Len(lines) < MaxLines /\ getline(line)
  \/ \E file \in FileStates : tryBlock(file)
  \/ \E i \in 1..Len(pending) : toolReturns(i)
  \/ \E i \in 1..Len(pending) : handlerReturns(i)
  \/ pc = "getline" /\ EndOfStream

SpecSteps == Init /\ [][NextSteps]_vars

-----------------------------------------------------------------------------
\* base64_encode (hello.cpp).  A std::string is the sequence of its
\* characters; int is 32 bits wide, two's complement.

\* const std::string chars
chars ==
  << "A", "B", "C", "D", "E", "F", "G", "H", "I", "J", "K", "L", "M", "N", "O", "P",
     "Q", "R", "S", "T", "U", "V", "W", "X", "Y", "Z", "a", "b", "c", "d", "e", "f",
     "g", "h", "i", "j", "k", "l", "m", "n", "o", "p", "q", "r", "s", "t", "u", "v",
     "w", "x", "y", "z", "0", "1", "2", "3", "4", "5", "6", "7", "8", "9", "+", "/" >>

\* Variant: the shift does not wrap but stops at the int of largest
\* magnitude whose low byte is zero
ShiftLeft8_Saturating(val) ==
  IF val >= 8388608 THEN 2147483392
  ELSE IF val < -8388608 THEN -2147483647 - 1
  ELSE val * 256

\* val << 8 on int: the low 24 bits of val move up and the 8 bits above
\* them are lost, the new bit 31 being the sign (modulo 2^32)
ShiftLeft8(val) ==
  LET low == val % 16777216 IN
  IF low >= 8388608 THEN (low - 16777216) * 256 ELSE low * 256

\* (x >> n) & 0x3F on int, the shift being arithmetic
Sextet(x, n) == (x \div (2 ^ n)) % 64

\* while (valb >= 0) { result.push_back(chars[(val >> valb) & 0x3F]); valb -= 6; }
RECURSIVE Drain(_, _, _)
Drain(val, valb, result) ==
  IF valb >= 0
    THEN Drain(val, valb - 6, Append(result, chars[Sextet(val, valb) + 1]))
    ELSE [valb |-> valb, result |-> result]

\* The for loop over data from its i-th byte on
RECURSIVE ForEachByte(_, _, _, _, _)
ForEachByte(bytes, i, val, valb, result) ==
  IF i > Len(bytes) THEN [val |-> val, valb |-> valb, result |-> result]
  ELSE LET v == ShiftLeft8(val) + bytes[i]
           d == Drain(v, valb + 8, result)
       IN ForEachByte(bytes, i + 1, v, d.valb, d.result)

\* while (result.size() % 4) result.push_back('=');
RECURSIVE PadToFour(_)
PadToFour(result) ==
  IF Len(result) % 4 # 0 THEN PadToFour(Append(result, "=")) ELSE result

base64_encode(bytes) ==
  LET s == ForEachByte(bytes, 1, 0, -6, <<>>)
      r == IF s.valb > -6
             THEN Append(s.result,
                         chars[Sextet(ShiftLeft8(s.val), s.valb + 8) + 1])
             ELSE s.result
  IN PadToFour(r)

\* Longest byte vector encoded
MaxBytes == 5

\* The values of the bytes: zero, two letters, all bits set
Bytes == {0, 77, 97, 255}

\* One more byte of the file is put in the vector
readByte(c) ==
  /\ ~encoded.some
  /\ data' = Append(data, c)
  /\ UNCHANGED <<status, fRegisteredTools, fServerName, fServerVersion,
                 configured, lines, out, calls, registered, stepVars, encoded>>

\* std::string encoded = base64_encode(buffer)
encode ==
  /\ ~encoded.some
  /\ encoded' = [some |-> TRUE, v |-> base64_encode(data)]
  /\ UNCHANGED <<status, fRegisteredTools, fServerName, fServerVersion,
                 configured, lines, out, calls, registered, stepVars, data>>

\* Byte vectors of at most MaxBytes bytes are built and encoded
NextBase64 ==
  \/ \E c \in Bytes : Len(data) < MaxBytes /\ readByte(c)
  \/ encode

SpecBase64 == Init /\ [][NextBase64]_vars

TypeOK ==
  /\ status \in {"setup", "running", "returned", "terminated"}
  /\ Len(lines) <= MaxLines + 1
  /\ \A k \in 1..Len(out) : out[k].src \in 1..Len(lines)

-----------------------------------------------------------------------------
\* Vocabulary of the properties

\* The line is a JSON object (a request or a notification)
IsRequest(line) == line.raw = "json" /\ line.doc.t = "object"

HasMember(line, key) == IsRequest(line) /\ key \in DOMAIN line.doc.o

\* The line is a request whose method member is the string m
IsMethod(line, m) == HasMember(line, "method") /\ line.doc.o.method = JStr(m)

\* The id a response to the request must carry
IdOf(line) == IF HasMember(line, "id") THEN line.doc.o.id ELSE JNull

\* Positions in the output of the responses written for line i
Responses(i) == {k \in 1..Len(out) : out[k].src = i}

Doc(k) == out[k].text.doc

IsEnvelope(doc) ==
  doc.t = "object" /\ {"jsonrpc", "id"} \subseteq DOMAIN doc.o

IsSuccess(doc) ==
  IsEnvelope(doc) /\ "result" \in DOMAIN doc.o /\ "error" \notin DOMAIN doc.o

IsError(doc) ==
  IsEnvelope(doc) /\ "error" \in DOMAIN doc.o /\ "result" \notin DOMAIN doc.o

IsErrorWith(doc, code) == IsError(doc) /\ doc.o.error.o.code = JNum(code)

-----------------------------------------------------------------------------
\* C1: responses appear on the output in the order in which the lines that
\* caused them were read.
C1_ResponsesInReadOrder ==
  \A a, b \in 1..Len(out) : out[a].src < out[b].src => a < b

C1_Witness ==
  /\ Len(out) >= 2
  /\ out[1].src = 1
  /\ out[2].src = 2

\* C2: no input line, whatever its content, causes more than one response.
C2_AtMostOneResponsePerLine ==
  \A i \in 1..Len(lines) : Cardinality(Responses(i)) <= 1

C2_Witness ==
  \E i, j \in 1..Len(lines) :
    /\ IsMethod(lines[i], "tools/call")
    /\ Cardinality(Responses(i)) = 1
    /\ IsErrorWith(Doc(CHOOSE k \in Responses(i) : TRUE), -32602)
    /\ Responses(j) = {}

\* Every registered tool describes itself in JSON
DescriptionsParse ==
  \A n \in DOMAIN fRegisteredTools : Parse(Describe(fRegisteredTools[n])).ok

\* C3: a non-empty line that is not JSON gets exactly one error response
\* with code -32700 and id null, does not end the loop, and requests on later
\* lines get their normal responses.
C3_ParseErrorRecovered ==
  \A i \in 1..Len(lines) :
    lines[i].raw \notin {"empty", "json"} =>
      /\ Cardinality(Responses(i)) = 1
      /\ \A k \in Responses(i) :
           IsErrorWith(Doc(k), -32700) /\ Doc(k).o.id = JNull
      /\ (i = Len(lines) => status # "terminated")
      /\ \A j \in (i + 1)..Len(lines) :
           /\ IsMethod(lines[j], "initialize") =>
                \E k \in Responses(j) :
                  /\ IsSuccess(Doc(k))
                  /\ Doc(k).o.id = IdOf(lines[j])
                  /\ Doc(k).o.result.o.serverInfo.o.name = JStr(fServerName)
           /\ (IsMethod(lines[j], "tools/list") /\ DescriptionsParse) =>
                \E k \in Responses(j) :
                  /\ IsSuccess(Doc(k))
                  /\ Doc(k).o.id = IdOf(lines[j])
                  /\ Len(Doc(k).o.result.o.tools.a)
                       = Cardinality(DOMAIN fRegisteredTools)
           /\ IsMethod(lines[j], "resources/list") =>
                \E k \in Responses(j) :
                  IsErrorWith(Doc(k), -32601) /\ Doc(k).o.id = IdOf(lines[j])

C3_Witness ==
  /\ Len(lines) >= 2
  /\ lines[1] = GarbageText
  /\ IsMethod(lines[2], "tools/list")
  /\ fRegisteredTools # <<>>
  /\ DescriptionsParse
  /\ Responses(1) # {}
  /\ Responses(2) # {}

\* The line is a tools/call naming HelloTool with arguments {value: V}, V a
\* string, and no birthday
IsHelloCall(line) ==
  /\ IsMethod(line, "tools/call")
  /\ HasMember(line, "params")
  /\ line.doc.o.params.t = "object"
  /\ {"name", "arguments"} \subseteq DOMAIN line.doc.o.params.o
  /\ line.doc.o.params.o.name = JStr("HelloTool")
  /\ line.doc.o.params.o.arguments.t = "object"
  /\ DOMAIN line.doc.o.params.o.arguments.o = {"value"}
  /\ line.doc.o.params.o.arguments.o.value.t = "string"

HelloRegistered ==
  /\ "HelloTool" \in DOMAIN fRegisteredTools
  /\ fRegisteredTools["HelloTool"].kind = "HelloTool"

\* C4: a tools/call of the registered HelloTool with arguments {value: V} is
\* answered by a success response with the request's id whose content is the
\* one text item "Hello V!".
C4_HelloToolGreets ==
  \A i \in 1..Len(lines) :
    (IsHelloCall(lines[i]) /\ HelloRegistered) =>
      \E k \in Responses(i) :
        Doc(k) =
          JObj([jsonrpc |-> JStr("2.0"),
                id |-> IdOf(lines[i]),
                result |->
                  JObj([content |->
                    JArr(<<JObj([type |-> JStr("text"),
                                 text |-> JStr("Hello "
                                   \o lines[i].doc.o.params.o.arguments.o.value.s
                                   \o "!")])>>)])])

\* The name a tools/call request asks for, "" when params or name is absent
RequestedTool(line) ==
  IF HasMember(line, "params") /\ "name" \in DOMAIN line.doc.o.params.o
    THEN line.doc.o.params.o.name.s
    ELSE ""

\* The line is a tools/call with well-formed params
IsToolCall(line) ==
  /\ IsMethod(line, "tools/call")
  /\ HasMember(line, "params") =>
       /\ line.doc.o.params.t = "object"
       /\ "name" \in DOMAIN line.doc.o.params.o =>
            line.doc.o.params.o.name.t = "string"

\* The protocol-level failures: a JSON line that is not an object, a method
\* that is not a string, an unrecognised (or missing) method, tools/call
\* with params that are not an object or a name that is not a string, and
\* tools/call of a name that is not registered
IsProtocolFailure(line) ==
  /\ line.raw = "json"
  /\ \/ line.doc.t # "object"
     \/ ~HasMember(line, "method")
     \/ line.doc.o.method.t # "string"
     \/ line.doc.o.method.s \notin KnownMethods
     \/ IsMethod(line, "tools/call") /\ ~IsToolCall(line)
     \/ IsToolCall(line) /\ RequestedTool(line) \notin DOMAIN fRegisteredTools

\* C5: every protocol-level failure is answered by an error response and
\* does not end the process.
C5_ProtocolFailuresRecovered ==
  \A i \in 1..Len(lines) :
    IsProtocolFailure(lines[i]) =>
      /\ \E k \in Responses(i) : IsError(Doc(k))
      /\ (i = Len(lines) => status # "terminated")

\* C6: a message without an id member never causes a response.
C6_NoResponseWithoutId ==
  \A i \in 1..Len(lines) :
    (IsRequest(lines[i]) /\ ~HasMember(lines[i], "id")) => Responses(i) = {}

\* C7: a response written for a line that parsed as a request carries the id
\* of that request, null when the request has none.
C7_ResponseCarriesRequestId ==
  \A k \in 1..Len(out) :
    IsRequest(lines[out[k].src]) => Doc(k).o.id = IdOf(lines[out[k].src])

\* The line is a request whose method is missing or is a string that is not
\* one of the five methods of the server
IsUnknownMethod(line) ==
  /\ IsRequest(line)
  /\ HasMember(line, "method") =>
       /\ line.doc.o.method.t = "string"
       /\ line.doc.o.method.s \notin KnownMethods

MethodText(line) ==
  IF HasMember(line, "method") THEN line.doc.o.method.s ELSE ""

\* C8: a request whose method M is not one of the five (or is missing) gets
\* the error -32601 with message "Method not found: " followed by M.
C8_UnknownMethodError ==
  \A i \in 1..Len(lines) :
    IsUnknownMethod(lines[i]) =>
      /\ Cardinality(Responses(i)) = 1
      /\ \A k \in Responses(i) :
           /\ IsErrorWith(Doc(k), -32601)
           /\ Doc(k).o.error.o.message
                = JStr("Method not found: " \o MethodText(lines[i]))

C8_Witness ==
  \E i, j \in 1..Len(lines) :
    /\ IsMethod(lines[i], "resources/list")
    /\ Responses(i) # {}
    /\ IsRequest(lines[j])
    /\ ~HasMember(lines[j], "method")
    /\ Responses(j) # {}

\* The line is a tools/call whose params.name is a string that is not a key
\* of the registry reg
IsUnknownToolCall(line, reg) ==
  /\ IsToolCall(line)
  /\ HasMember(line, "params")
  /\ "name" \in DOMAIN line.doc.o.params.o
  /\ RequestedTool(line) \notin DOMAIN reg

\* C9: a tools/call of a name X that is not registered writes the error
\* -32602 whose message holds X, invokes no tool and leaves the registry as
\* it was.
C9_UnknownToolError ==
  [][(lines' # lines /\ IsUnknownToolCall(lines'[Len(lines')], fRegisteredTools))
       => /\ fRegisteredTools' = fRegisteredTools
          /\ calls' = calls
          /\ status' = "running"
          /\ Len(out') = Len(out) + 1
          /\ out'[Len(out')].src = Len(lines')
          /\ IsErrorWith(out'[Len(out')].text.doc, -32602)
          /\ out'[Len(out')].text.doc.o.error.o.message
               = JStr("Method not found: " \o RequestedTool(lines'[Len(lines')]))
    ]_vars

C9_Witness ==
  /\ lines # <<>>
  /\ IsUnknownToolCall(lines[Len(lines)], fRegisteredTools)
  /\ RequestedTool(lines[Len(lines)]) = "Nope"
  /\ DOMAIN fRegisteredTools # {}
  /\ Responses(Len(lines)) # {}

\* C10: an initialize request, whatever its params, gets a success response
\* with its id, protocolVersion "2024-11-05", capabilities {tools: {}} and
\* the name and version most recently configured.
C10_InitializeResult ==
  \A i \in 1..Len(lines) :
    IsMethod(lines[i], "initialize") =>
      /\ Cardinality(Responses(i)) = 1
      /\ \A k \in Responses(i) :
           Doc(k) =
             JObj([jsonrpc |-> JStr("2.0"),
                   id |-> IdOf(lines[i]),
                   result |->
                     JObj([protocolVersion |-> JStr("2024-11-05"),
                           capabilities |-> JObj([tools |-> JObj(<<>>)]),
                           serverInfo |->
                             JObj([name |-> JStr(configured.name),
                                   version |-> JStr(configured.version)])])])

C10_Witness ==
  \E i \in 1..Len(lines) :
    /\ IsMethod(lines[i], "initialize")
    /\ HasMember(lines[i], "params")
    /\ configured = [name |-> "OtherServer", version |-> "2.0.0"]
    /\ Responses(i) # {}

\* The names in a tools array, in order
ListedNames(tools) == [a \in 1..Len(tools.a) |-> tools.a[a].o.name.s]

\* C11: every tools/list request gets a success response whose tools array
\* holds one descriptor per registered name (none for the empty registry).
C11_ToolsListSucceeds ==
  \A i \in 1..Len(lines) :
    IsMethod(lines[i], "tools/list") =>
      \E k \in Responses(i) :
        /\ IsSuccess(Doc(k))
        /\ LET names == ListedNames(Doc(k).o.result.o.tools) IN
             /\ Len(names) = Cardinality(DOMAIN fRegisteredTools)
             /\ {names[a] : a \in 1..Len(names)} = DOMAIN fRegisteredTools

\* The part of a response that does not depend on the request: its result
\* or its error
Outcome(doc) == [n \in DOMAIN doc.o \ {"id"} |-> doc.o[n]]

\* C12: without registration in between, any two tools/list responses of a
\* run hold the same descriptors in the same order, whatever was handled
\* between them.
C12_ToolsListStable ==
  \A i, j \in 1..Len(lines) :
    (IsMethod(lines[i], "tools/list") /\ IsMethod(lines[j], "tools/list")) =>
      /\ Cardinality(Responses(i)) = 1
      /\ Cardinality(Responses(j)) = 1
      /\ \A k \in Responses(i), m \in Responses(j) :
           Outcome(Doc(k)) = Outcome(Doc(m))

C12_Witness ==
  /\ Len(lines) = 3
  /\ IsMethod(lines[1], "tools/list")
  /\ IsMethod(lines[2], "tools/call")
  /\ IsMethod(lines[3], "tools/list")
  /\ \E c \in 1..Len(calls) : calls[c].src = 2
  /\ Responses(2) # {}
  /\ Cardinality(DOMAIN fRegisteredTools) >= 2
  /\ \A k \in Responses(3) :
       IsSuccess(Doc(k)) /\ Len(Doc(k).o.result.o.tools.a) >= 2

\* The tool most recently given to registerTool under the name n
LastRegistered(n) ==
  registered[CHOOSE i \in 1..Len(registered) :
               /\ ToolName(registered[i]) = n
               /\ \A j \in (i + 1)..Len(registered) : ToolName(registered[j]) # n]

\* C13: after any sequence of registerTool calls each registered name has
\* one binding, the tool registered last under it; tools/list shows the name
\* once and tools/call invokes that tool.
C13_LastRegistrationWins ==
  /\ DOMAIN fRegisteredTools
       = {ToolName(registered[i]) : i \in 1..Len(registered)}
  /\ \A n \in DOMAIN fRegisteredTools : fRegisteredTools[n] = LastRegistered(n)
  /\ \A k \in 1..Len(out) :
       (IsMethod(lines[out[k].src], "tools/list") /\ IsSuccess(Doc(k))) =>
         LET names == ListedNames(Doc(k).o.result.o.tools) IN
           /\ \A a, b \in 1..Len(names) : a # b => names[a] # names[b]
           /\ {names[a] : a \in 1..Len(names)}
                = {ToolName(registered[i]) : i \in 1..Len(registered)}
  /\ \A c \in 1..Len(calls) :
       calls[c].inst = LastRegistered(RequestedTool(lines[calls[c].src])).inst

C13_Witness ==
  /\ Len(registered) >= 2
  /\ registered[1].inst = "p1"
  /\ registered[2].inst = "e1"
  /\ \E c \in 1..Len(calls) : calls[c].inst = "e1" /\ Responses(calls[c].src) # {}
  /\ \E k \in 1..Len(out) :
       /\ IsMethod(lines[out[k].src], "tools/list")
       /\ IsSuccess(Doc(k))
       /\ ListedNames(Doc(k).o.result.o.tools) = <<"Echo">>

\* C14: an empty line writes nothing and leaves the server as it was, so
\* the lines after it are handled as if it had not been sent.
C14_EmptyLineIgnored ==
  [][(lines' = Append(lines, EmptyText))
       => /\ out' = out
          /\ calls' = calls
          /\ status' = status
          /\ fRegisteredTools' = fRegisteredTools
          /\ fServerName' = fServerName
          /\ fServerVersion' = fServerVersion
    ]_vars

C14_Witness ==
  /\ Len(lines) = 2
  /\ lines[1] = EmptyText
  /\ Responses(1) = {}
  /\ IsMethod(lines[2], "initialize")
  /\ Responses(2) # {}

\* C15: a line of spaces or tabs only is skipped and gets no response.
C15_BlankLineSkipped ==
  \A i \in 1..Len(lines) : lines[i] = BlankText => Responses(i) = {}

\* The line is one of the two notifications the server knows
IsKnownNotification(line) ==
  \/ IsMethod(line, "notifications/initialized")
  \/ IsMethod(line, "notifications/cancelled")

\* C16: notifications/initialized and notifications/cancelled, with or
\* without id, get no response and change neither the registry nor the
\* server name and version.
C16_NotificationsInert ==
  [][(lines' # lines /\ IsKnownNotification(lines'[Len(lines')]))
       => /\ out' = out
          /\ calls' = calls
          /\ status' = "running"
          /\ fRegisteredTools' = fRegisteredTools
          /\ fServerName' = fServerName
          /\ fServerVersion' = fServerVersion
    ]_vars

C16_Witness ==
  /\ Len(lines) = 2
  /\ IsMethod(lines[1], "notifications/initialized")
  /\ HasMember(lines[1], "id")
  /\ IsMethod(lines[2], "notifications/cancelled")
  /\ ~HasMember(lines[2], "id")
  /\ fRegisteredTools # <<>>
  /\ out = <<>>
  /\ status = "running"

\* C17: the result of a tools/call is {content: [{type: "text", text: v}]}
\* when the tool returned a bare value v, and {content: a} when the tool
\* returned a content array a.
C17_ResultNormalized ==
  \A c \in 1..Len(calls) :
    calls[c].ret.ok =>
      \E k \in Responses(calls[c].src) :
        /\ IsSuccess(Doc(k))
        /\ Doc(k).o.result.o.content
             = IF calls[c].ret.v.t = "array"
                 THEN calls[c].ret.v
                 ELSE JArr(<<JObj([type |-> JStr("text"),
                                   text |-> calls[c].ret.v])>>)

\* The texts with which the shipped tools report a failure
ErrorTexts == {"Error: Invalid arguments", "Error: Could not read hello.cpp file"}

\* The invocation is one in which the tool's own logic fails: HelloTool with
\* arguments that are not an object or with a value or birthday that is not
\* a string, GetSourceCodeTool when the file is missing or empty
ToolLogicFails(call) ==
  \/ /\ call.inst = "h1"
     /\ \/ call.args.doc.t # "object"
        \/ \E m \in {"value", "birthday"} \cap DOMAIN call.args.doc.o :
             call.args.doc.o[m].t # "string"
  \/ /\ call.inst = "g1"
     /\ call.ret = Ok(JArr(<<TextItem("Error: Could not read hello.cpp file")>>))

\* C18: a call in which the tool's own logic fails is answered with a
\* success response whose content is a text item "Error: ...", and the
\* failure does not leave the tool as an exception.
C18_ToolFailureReported ==
  \A c \in 1..Len(calls) :
    ToolLogicFails(calls[c]) =>
      /\ calls[c].ret.ok
      /\ \E k \in Responses(calls[c].src) :
           /\ IsSuccess(Doc(k))
           /\ Doc(k).o.result.o.content.t = "array"
           /\ Len(Doc(k).o.result.o.content.a) = 1
           /\ Doc(k).o.result.o.content.a[1].o.type = JStr("text")
           /\ Doc(k).o.result.o.content.a[1].o.text.t = "string"
           /\ Doc(k).o.result.o.content.a[1].o.text.s \in ErrorTexts

\* C19: whatever the lines, run() is not left before the end of the stream:
\* the process is never ended by a line.
C19_RunReturnsNormally == status # "terminated"

\* C20: -32700 is written only for a line that does not parse, -32601 only
\* for an unrecognised method, -32602 only for a tools/call of a name that
\* is not registered.
C20_OneConditionPerCode ==
  \A k \in 1..Len(out) :
    IsError(Doc(k)) =>
      /\ Doc(k).o.error.o.code = JNum(-32700) => lines[out[k].src].raw # "json"
      /\ Doc(k).o.error.o.code = JNum(-32601) => IsUnknownMethod(lines[out[k].src])
      /\ Doc(k).o.error.o.code = JNum(-32602) =>
           /\ IsToolCall(lines[out[k].src])
           /\ RequestedTool(lines[out[k].src]) \notin DOMAIN fRegisteredTools

\* C21: the output is at every moment a sequence of complete response
\* documents, each the text of one JSON document written for a line that was
\* read; nothing else is ever written to it.
C21_OutputIsResponseDocuments ==
  \A k \in 1..Len(out) :
    /\ out[k].src \in 1..Len(lines)
    /\ out[k].text.raw = "json"
    /\ IsSuccess(Doc(k)) \/ IsError(Doc(k))

C21_Witness ==
  /\ status = "terminated"
  /\ Len(out) = 1
  /\ IsError(Doc(1))
  /\ lines[1] = BlankText
  /\ \E c \in 1..Len(calls) : calls[c].src = 2 /\ calls[c].inst = "g1"

\* C22: serving never changes the registry: from the moment run() is
\* entered no step, whatever the line, changes the set of registered names
\* or the tool bound to a name.
C22_ServingKeepsRegistry ==
  [][status' # "setup" => fRegisteredTools' = fRegisteredTools]_vars

C22_Witness ==
  /\ Len(lines) = 2
  /\ IsUnknownToolCall(lines[1], fRegisteredTools)
  /\ Responses(1) # {}
  /\ IsMethod(lines[2], "tools/call")
  /\ \E c \in 1..Len(calls) : calls[c].src = 2
  /\ Cardinality(DOMAIN fRegisteredTools) = 3

\* The texts written for line i, in the order in which they were written
Written(i) ==
  LET pos == SelectSeq([k \in 1..Len(out) |-> k], LAMBDA k : out[k].src = i)
  IN [a \in 1..Len(pos) |-> out[pos[a]].text]

\* The tool invocations made for line i: instance, argument text and return
Invoked(i) ==
  LET pos == SelectSeq([c \in 1..Len(calls) |-> c], LAMBDA c : calls[c].src = i)
  IN [a \in 1..Len(pos) |->
        [inst |-> calls[pos[a]].inst, args |-> calls[pos[a]].args,
         ret |-> calls[pos[a]].ret]]

\* C23: the same line sent at two places of a run, that is after two
\* different histories, with the registry and configuration of that run, is
\* answered by the same texts (or by none both times) and invokes the same
\* tool in the same way; what came before, initialize or not, does not count.
C23_DispatchStateless ==
  \A i, j \in 1..Len(lines) :
    lines[i] = lines[j] =>
      /\ Written(i) = Written(j)
      /\ Invoked(i) = Invoked(j)

C23_Witness ==
  /\ Len(lines) = 3
  /\ IsMethod(lines[1], "tools/call")
  /\ IsMethod(lines[2], "initialize")
  /\ lines[3] = lines[1]
  /\ Len(Written(1)) = 1
  /\ Len(Written(2)) = 1
  /\ Len(Written(3)) = 1
  /\ Len(Invoked(3)) = 1

\* C24: the server as main builds it exposes one tool only: a tools/list
\* request to it is answered by a tools array with exactly one descriptor,
\* named "HelloTool".
C24_OnlyHelloToolExposed ==
  \A i \in 1..Len(lines) :
    (registered = MainRegistrations /\ IsMethod(lines[i], "tools/list")) =>
      \E k \in Responses(i) :
        /\ IsSuccess(Doc(k))
        /\ ListedNames(Doc(k).o.result.o.tools) = <<"HelloTool">>

\* C25: request handling never overlaps: at every moment at most one
\* handler has been entered and not left and at most one tool invocation is
\* running, and a line is read only when the handler of every line before it,
\* its tool invocation and its write included, has completed.
C25_NoOverlap ==
  [][/\ Len(pending') <= 1
     /\ Cardinality({i \in 1..Len(pending') : pending'[i].stage = "call"}) <= 1
     /\ lines' # lines =>
          /\ pending = <<>>
          /\ pc = "getline"
    ]_vars

C25_Witness ==
  /\ Len(lines) = 2
  /\ Len(Written(1)) = 1
  /\ Len(Invoked(1)) = 1
  /\ Len(pending) = 1
  /\ pending[1].src = 2
  /\ pending[1].stage = "call"

\* The line is a tools/call without params, or with params that are an
\* object without name
NamesNoTool(line) ==
  /\ IsMethod(line, "tools/call")
  /\ HasMember(line, "params") =>
       /\ line.doc.o.params.t = "object"
       /\ "name" \notin DOMAIN line.doc.o.params.o

\* The line is a tools/call of a name bound in the registry, with params
\* that have no arguments member
CallsWithoutArguments(line) ==
  /\ IsToolCall(line)
  /\ HasMember(line, "params")
  /\ "name" \in DOMAIN line.doc.o.params.o
  /\ line.doc.o.params.o.name.s \in DOMAIN fRegisteredTools
  /\ "arguments" \notin DOMAIN line.doc.o.params.o

\* C26: a tools/call without params, or with params without name, is a call
\* of the tool named "": with no tool of that name it gets the one error
\* -32602 and no tool is invoked.  A tools/call of a registered tool with
\* params without arguments invokes that tool with the text of the empty
\* JSON object.
C26_ToolCallDefaults ==
  \A i \in 1..Len(lines) :
    /\ (NamesNoTool(lines[i]) /\ "" \notin DOMAIN fRegisteredTools) =>
         /\ Len(Written(i)) = 1
         /\ \A k \in Responses(i) :
              /\ IsErrorWith(Doc(k), -32602)
              /\ Doc(k).o.error.o.message = JStr("Method not found: ")
              /\ Doc(k).o.id = IdOf(lines[i])
         /\ Invoked(i) = <<>>
    /\ CallsWithoutArguments(lines[i]) =>
         /\ Len(Invoked(i)) = 1
         /\ Invoked(i)[1].inst
              = fRegisteredTools[lines[i].doc.o.params.o.name.s].inst
         /\ Invoked(i)[1].args = Dump(JObj(<<>>))

C26_Witness ==
  /\ Len(lines) = 2
  /\ NamesNoTool(lines[1])
  /\ ~HasMember(lines[1], "params")
  /\ Len(Written(1)) = 1
  /\ CallsWithoutArguments(lines[2])
  /\ Len(Invoked(2)) = 1

\* The text of the greeting for a value and a birthday
Greeting(value, birthday) ==
  IF birthday # ""
    THEN "Hello " \o value \o " (born on " \o birthday \o ")!"
    ELSE "Hello " \o value \o "!"

\* The member m of the arguments object as the greeting uses it: the given
\* default when it is absent
ArgumentOr(arguments, m, default) ==
  IF m \in DOMAIN arguments.o THEN arguments.o[m] ELSE JStr(default)

\* C27: HelloTool::call on an arguments object returns a content array with
\* exactly one text item, whose text greets the value field ("World" when
\* absent) and names the birthday when it is present and not empty.
C27_HelloToolCallGreeting ==
  \A c \in 1..Len(calls) :
    (calls[c].inst = "h1" /\ calls[c].args.raw = "json"
       /\ calls[c].args.doc.t = "object") =>
      /\ calls[c].ret.ok
      /\ calls[c].ret.v.t = "array"
      /\ Len(calls[c].ret.v.a) = 1
      /\ \E value, birthday \in {"World", "", "Ada", "1815"} :
           /\ ArgumentOr(calls[c].args.doc, "value", "World") = JStr(value)
           /\ ArgumentOr(calls[c].args.doc, "birthday", "") = JStr(birthday)
           /\ calls[c].ret.v.a[1] = TextItem(Greeting(value, birthday))

\* std::string's operator< on the tool names of the model
NameLess ==
  { <<"Echo", "GetSourceCode">>, <<"Echo", "HelloTool">>,
    <<"GetSourceCode", "HelloTool">> }

\* C28: with tools of distinct names registered in whatever order, the
\* tools array of a tools/list result holds the descriptor of each
\* registered tool once, in the ascending order of the names: it depends on
\* the set of tools only, not on the order of the registerTool calls.
C28_ListOrderByName ==
  \A k \in 1..Len(out) :
    ( /\ IsMethod(lines[out[k].src], "tools/list")
      /\ IsSuccess(Doc(k))
      /\ \A a, b \in 1..Len(registered) :
           a # b => ToolName(registered[a]) # ToolName(registered[b]) ) =>
      LET tools == Doc(k).o.result.o.tools.a
          names == ListedNames(Doc(k).o.result.o.tools)
      IN /\ Len(tools) = Len(registered)
         /\ \A a, b \in 1..Len(names) : a < b => <<names[a], names[b]>> \in NameLess
         /\ \A a \in 1..Len(tools) :
              \E i \in 1..Len(registered) :
                /\ ToolName(registered[i]) = names[a]
                /\ Dump(tools[a]) = Describe(registered[i])

C28_Witness ==
  /\ Len(registered) = 3
  /\ registered[1].inst = "h1"
  /\ registered[2].inst = "g1"
  /\ registered[3].inst = "e1"
  /\ \E k \in 1..Len(out) :
       /\ IsMethod(lines[out[k].src], "tools/list")
       /\ IsSuccess(Doc(k))
       /\ ListedNames(Doc(k).o.result.o.tools)
            = <<"Echo", "GetSourceCode", "HelloTool">>

\* C29: every response written has jsonrpc "2.0", an id member and exactly
\* one of result and error; an error holds an integer code and a string
\* message.
C29_EnvelopeShape ==
  \A k \in 1..Len(out) :
    /\ out[k].text.raw = "json"
    /\ Doc(k).t = "object"
    /\ {"jsonrpc", "id"} \subseteq DOMAIN Doc(k).o
    /\ Doc(k).o.jsonrpc = JStr("2.0")
    /\ ("result" \in DOMAIN Doc(k).o) # ("error" \in DOMAIN Doc(k).o)
    /\ "error" \in DOMAIN Doc(k).o =>
         /\ Doc(k).o.error.t = "object"
         /\ {"code", "message"} \subseteq DOMAIN Doc(k).o.error.o
         /\ Doc(k).o.error.o.code.t = "number"
         /\ Doc(k).o.error.o.code.n \in Int
         /\ Doc(k).o.error.o.message.t = "string"

C29_Witness ==
  /\ Len(out) = 2
  /\ "result" \in DOMAIN Doc(1).o
  /\ Doc(1).o.id = JStr("a")
  /\ "error" \in DOMAIN Doc(2).o
  /\ Doc(2).o.error.o.code = JNum(-32601)
  /\ Doc(2).o.id = JNull

\* The alphabet of standard Base64 (RFC 4648, table 1)
Rfc4648Alphabet ==
  << "A", "B", "C", "D", "E", "F", "G", "H", "I", "J", "K", "L", "M", "N", "O", "P",
     "Q", "R", "S", "T", "U", "V", "W", "X", "Y", "Z", "a", "b", "c", "d", "e", "f",
     "g", "h", "i", "j", "k", "l", "m", "n", "o", "p", "q", "r", "s", "t", "u", "v",
     "w", "x", "y", "z", "0", "1", "2", "3", "4", "5", "6", "7", "8", "9", "+", "/" >>

\* The standard padded Base64 encoding: each group of three bytes gives four
\* characters, a last group of one byte two characters and "==", a last
\* group of two bytes three characters and "="
RECURSIVE StandardBase64(_)
StandardBase64(bytes) ==
  IF Len(bytes) = 0 THEN <<>>
  ELSE IF Len(bytes) = 1 THEN
    << Rfc4648Alphabet[(bytes[1] \div 4) + 1],
       Rfc4648Alphabet[((bytes[1] % 4) * 16) + 1], "=", "=" >>
  ELSE IF Len(bytes) = 2 THEN
    << Rfc4648Alphabet[(bytes[1] \div 4) + 1],
       Rfc4648Alphabet[((bytes[1] % 4) * 16) + (bytes[2] \div 16) + 1],
       Rfc4648Alphabet[((bytes[2] % 16) * 4) + 1], "=" >>
  ELSE
    << Rfc4648Alphabet[(bytes[1] \div 4) + 1],
       Rfc4648Alphabet[((bytes[1] % 4) * 16) + (bytes[2] \div 16) + 1],
       Rfc4648Alphabet[((bytes[2] % 16) * 4) + (bytes[3] \div 64) + 1],
       Rfc4648Alphabet[(bytes[3] % 64) + 1] >>
    \o StandardBase64(SubSeq(bytes, 4, Len(bytes)))

\* C30: for every byte sequence of length n base64_encode returns its
\* standard padded Base64 encoding, of length 4 * ceil(n / 3), also for
\* n >= 4, when the int accumulator has wrapped.
C30_Base64Standard ==
  encoded.some =>
    /\ encoded.v = StandardBase64(data)
    /\ Len(encoded.v) = 4 * ((Len(data) + 2) \div 3)

C30_Witness ==
  /\ encoded.some
  /\ Len(data) >= 5
  /\ data[1] = 255
  /\ data[2] = 255
  /\ data[5] = 77
  /\ Len(encoded.v) = 8

====
